---- MODULE Spec2Model ----
(***************************************************************************)
(* A model of the unblock graph of the borrow analysis                     *)
(* (src/src/borrows/unblock_graph.rs) and of the path conditions its edges *)
(* carry (src/src/borrows/path_condition.rs).                              *)
(*                                                                         *)
(* Three specifications share the variables:                               *)
(*   SpecResolve  UnblockGraph::actions on every bounded edge set          *)
(*   SpecBuild    UnblockGraph::for_place over every bounded oracle,       *)
(*                then filter_for_path (optional), then actions            *)
(*   SpecFilter   UnblockGraph::filter_for_path on graphs whose edges      *)
(*                carry different path conditions                          *)
(***************************************************************************)
EXTENDS Integers, Sequences, FiniteSets, TLC

VARIABLES
    oracle,     \* BorrowsState: the blocking edges the analysis state holds
    start,      \* the argument of the entry point: a place, a location, an edge
    graph,      \* UnblockGraph.edges
    filter_path,\* the path given to the last filter_for_path call
    stack,      \* the builder's chain of nested calls, innermost last
    rejected,   \* the history action whose record() failed (NoItem: none)
    pc,         \* where the program is
    edges,      \* actions(): the working edge set
    to_keep,    \* actions(): the copy the current pass removes from
    todo,       \* actions(): the edges the current pass has not visited yet
    actions,    \* actions(): the sequence returned
    passes,     \* actions(): the iterations of the while loop begun so far
    entry,      \* the entry point of the builder that is called
    cond,       \* a PathConditions value, the receiver of the calls
    call        \* the last call made on cond: its arguments and what it returned

condVars == <<cond, call>>

vars ==
    <<oracle, start, graph, filter_path, stack, rejected, pc, edges, to_keep, todo, actions,
      passes, entry, condVars>>

(***************************************************************************)
(* Bounds of the model.                                                    *)
(***************************************************************************)
NBlocks == 4            \* basic blocks b0 .. b(NBlocks-1)
MaxPathLen == 3         \* longest concrete path given to filter_for_path
MaxGraphEdges == 3      \* largest edge set given to actions() in SpecResolve
MaxOracleEdges == 3     \* largest oracle in SpecBuild
MaxFilterEdges == 3     \* largest graph in SpecFilter

Blocks == 0 .. (NBlocks - 1)

(* The subsets of U with at most k elements. *)
RECURSIVE UpTo(_, _)
UpTo(U, k) ==
    IF k = 0 THEN {{}}
    ELSE LET prev == UpTo(U, k - 1)
         IN  prev \cup {S \cup {e} : S \in prev, e \in U}

(* The sequences over S of length at most n. *)
RECURSIVE SeqsUpTo(_, _)
SeqsUpTo(S, n) ==
    IF n = 0 THEN {<<>>}
    ELSE LET prev == SeqsUpTo(S, n - 1)
         IN  prev \cup {Append(s, b) : s \in {t \in prev : Len(t) = n - 1}, b \in S}

(***************************************************************************)
(* Path conditions (path_condition.rs).                                    *)
(* A PathCondition is a pair <<from, to>>; a PCGraph is a set of them,     *)
(* iterated in the BTreeSet's order (by from, then to).                    *)
(***************************************************************************)
AtBlock(b) == [tag |-> "AtBlock", block |-> b]
Paths(g) == [tag |-> "Paths", graph |-> g]

PCLess(a, b) == a[1] < b[1] \/ (a[1] = b[1] /\ a[2] < b[2])

(* Iterator::find over the ordered set: the first of the elements found, *)
(* as an Option.                                                         *)
FirstOf(hits) ==
    IF hits = {} THEN <<>>
    ELSE <<CHOOSE m \in hits : \A o \in hits : o = m \/ PCLess(m, o)>>

has_path_to_block(g, block) == \E pc1 \in g : pc1[2] = block

has_path_from_block(g, block) == \E pc1 \in g : pc1[1] = block

(* Option<BasicBlock>: <<>> is None, <<b>> is Some(b). *)
PCGraph_root(g) ==
    LET f == FirstOf({pc1 \in g : ~has_path_to_block(g, pc1[1])})
    IN  IF f = <<>> THEN <<>> ELSE <<f[1][1]>>

PCGraph_end(g) ==
    LET f == FirstOf({pc1 \in g : ~has_path_from_block(g, pc1[2])})
    IN  IF f = <<>> THEN <<>> ELSE <<f[1][2]>>

(* The position of the last occurrence of the root, not of the first. *)
RootIdx_last(path, root) ==
    LET hits == {i \in 1 .. Len(path) : path[i] = root}
    IN  IF hits = {} THEN 1 ELSE CHOOSE i \in hits : \A j \in hits : i >= j

(* path.iter().position(|b| *b == root).unwrap_or(0), as a 1-based index. *)
RootIdx(path, root) ==
    LET hits == {i \in 1 .. Len(path) : path[i] = root}
    IN  IF hits = {} THEN 1 ELSE CHOOSE i \in hits : \A j \in hits : i <= j

(* &path[root_idx..] when the graph has a root, path itself otherwise. *)
SlicedPath(g, path) ==
    LET r == PCGraph_root(g)
    IN  IF r = <<>> THEN path
        ELSE SubSeq(path, RootIdx(path, r[1]), Len(path))

(* path.len() - 1 on an empty slice: the unsigned subtraction overflows.  *)
(* A debug build panics on the subtraction; a release build wraps and     *)
(* panics on the index path[0]. Either way the call does not return.      *)
has_suffix_of_panics(g, path) == Len(SlicedPath(g, path)) = 0

(* has_suffix_of that walks the whole path, not the part from the root. *)
has_suffix_of_whole_path(g, path) ==
    \A i \in 1 .. (Len(path) - 1) : <<path[i], path[i + 1]>> \in g

has_suffix_of(g, path) ==
    LET p == SlicedPath(g, path)
    IN  \A i \in 1 .. (Len(p) - 1) : <<p[i], p[i + 1]>> \in g

valid_for_path_panics(c, path) ==
    c.tag = "Paths" /\ has_suffix_of_panics(c.graph, path)

valid_for_path(c, path) ==
    IF c.tag = "AtBlock"
    THEN Len(path) > 0 /\ path[Len(path)] = c.block
    ELSE has_suffix_of(c.graph, path)

(***************************************************************************)
(* Places and blocking edges.                                              *)
(* A place is a local followed by its projections, <<1>> or <<1, 1>>;      *)
(* a location is a place that is Current, Old (a snapshot) or Remote.      *)
(***************************************************************************)
Current(p) == [kind |-> "Current", place |-> p]
OldPlace(p) == [kind |-> "Old", place |-> p]

IsStrictPrefix(q, p) == Len(q) < Len(p) /\ SubSeq(p, 1, Len(q)) = q

Reborrow(blocked, assigned, c) ==
    [kind |-> "Reborrow", blocked_place |-> blocked, assigned_place |-> assigned,
     mutability |-> "Mut", reserve_location |-> [block |-> 0, statement_index |-> 0],
     conditions |-> c]

DerefExpansion(b, ex, c) ==
    [kind |-> "DerefExpansion", base |-> b, expansion |-> ex, conditions |-> c]

Abstraction(blocks, blockers, c) ==
    [kind |-> "Abstraction", location |-> [block |-> 0, statement_index |-> 0],
     blocks_places |-> blocks, blocker_places |-> blockers, conditions |-> c]

(* The membership of the place in the projection of an abstract region. *)
RegionProjectionMember(place, region, c) ==
    [kind |-> "RegionProjectionMember", place |-> place, region |-> region,
     conditions |-> c]

(* Conditioned<Reborrow>.value: the reborrow without its path conditions. *)
ReborrowValue(e) ==
    [blocked_place |-> e.blocked_place, assigned_place |-> e.assigned_place,
     mutability |-> e.mutability, reserve_location |-> e.reserve_location]

(* BorrowsEdge::blocks_place *)
blocks_place(e, node) ==
    CASE e.kind = "Reborrow" -> e.blocked_place = node
      [] e.kind = "DerefExpansion" -> e.base = node
      [] e.kind = "Abstraction" -> node \in e.blocks_places
      [] e.kind = "RegionProjectionMember" -> e.place = node
      [] OTHER -> FALSE

(* BorrowsEdge::valid_for_path: the edge's conditions decide. *)
edge_valid_for_path(e, path) == valid_for_path(e.conditions, path)

(***************************************************************************)
(* UnblockGraph::actions (unblock_graph.rs 114-189).                       *)
(***************************************************************************)
TerminateReborrow(r) ==
    [action |-> "TerminateReborrow", blocked_place |-> r.blocked_place,
     assigned_place |-> r.assigned_place, reserve_location |-> r.reserve_location,
     is_mut |-> (r.mutability = "Mut")]

Collapse(d) == [action |-> "Collapse", base |-> d.base, expansion |-> d.expansion]

TerminateAbstraction(a) ==
    [action |-> "TerminateAbstraction", location |-> a.location,
     blocks_places |-> a.blocks_places, blocker_places |-> a.blocker_places]

(* push_action with the new action put first instead of last. *)
push_action_front(acts, a) ==
    IF \E i \in 1 .. Len(acts) : acts[i] = a THEN acts ELSE <<a>> \o acts

(* push_action without the contains() test. *)
push_action_always(acts, a) == Append(acts, a)

(* let mut push_action = |action| if !actions.contains(&action) { push } *)
push_action(acts, a) ==
    IF \E i \in 1 .. Len(acts) : acts[i] = a THEN acts ELSE Append(acts, a)

(* let is_leaf = |node| edges.iter().all(|e| !e.blocks_place(node)) *)
is_leaf(es, node) == \A e \in es : ~blocks_place(e, node)

(* An abstraction taken for a leaf as soon as one blocker place is one. *)
is_leaf_abstraction_any(es, a) == \E place \in a.blocker_places : is_leaf(es, place)

is_leaf_abstraction(es, a) == \A place \in a.blocker_places : is_leaf(es, place)

(* The blocked place taken for the assigned place. *)
ReborrowLeafPlaceBlocked(r) == r.blocked_place

(* The place whose leafness decides a reborrow edge. *)
ReborrowLeafPlace(r) == r.assigned_place

(* The guards of the three match arms of the pass. *)
Peelable(es, e) ==
    CASE e.kind = "Reborrow" -> is_leaf(es, ReborrowLeafPlace(e))
      [] e.kind = "DerefExpansion" -> \A p \in e.expansion : is_leaf(es, p)
      [] e.kind = "Abstraction" -> is_leaf_abstraction(es, e)
      [] OTHER -> FALSE

ActionOf(e) ==
    CASE e.kind = "Reborrow" -> TerminateReborrow(e)
      [] e.kind = "DerefExpansion" -> Collapse(e)
      [] e.kind = "Abstraction" -> TerminateAbstraction(e)

(* The assertion left out. *)
NoLeafRemovedUnchecked(es, keep) == FALSE

(* assert!(to_keep.len() < edges.len(), "Didn't remove any leaves!") fails *)
NoLeafRemoved(es, keep) == ~(Cardinality(keep) < Cardinality(es))

(* actions(self, ..): the graph's edges become the working set; the body  *)
(* runs to the first pass when there is an edge, and returns otherwise.   *)
CallActions ==
    /\ pc \in {"built", "filtered"}
    /\ edges' = graph
    /\ actions' = <<>>
    /\ IF graph = {}
       THEN pc' = "returned" /\ passes' = 0 /\ UNCHANGED <<to_keep, todo>>
       ELSE pc' = "pass" /\ passes' = 1 /\ to_keep' = graph /\ todo' = graph
    /\ UNCHANGED <<condVars, entry, oracle, start, filter_path, graph, stack, rejected>>

(* The iteration with the leaf test made against the edges still kept    *)
(* instead of the edges the pass started with.                            *)
VisitEdgeAgainstKept ==
    /\ pc = "pass"
    /\ \E e \in todo :
         /\ todo' = todo \ {e}
         /\ IF Peelable(to_keep, e)
            THEN /\ actions' = push_action(actions, ActionOf(e))
                 /\ to_keep' = to_keep \ {e}
            ELSE UNCHANGED <<actions, to_keep>>
    /\ UNCHANGED <<condVars, entry, oracle, start, filter_path, graph, stack, rejected, pc, edges, passes>>

(* One iteration of `for edge in edges.iter()`, in any order of the set. *)
VisitEdge ==
    /\ pc = "pass"
    /\ \E e \in todo :
         /\ todo' = todo \ {e}
         /\ IF Peelable(edges, e)
            THEN /\ actions' = push_action(actions, ActionOf(e))
                 /\ to_keep' = to_keep \ {e}
            ELSE UNCHANGED <<actions, to_keep>>
    /\ UNCHANGED <<condVars, entry, oracle, start, filter_path, graph, stack, rejected, pc, edges, passes>>

(* The end of a pass: the assertion, edges = to_keep, the loop condition. *)
EndPass ==
    /\ pc = "pass"
    /\ todo = {}
    /\ IF NoLeafRemoved(edges, to_keep)
       THEN pc' = "stuck" /\ UNCHANGED <<edges, to_keep, todo, passes>>
       ELSE /\ edges' = to_keep
            /\ IF to_keep = {}
               THEN pc' = "returned" /\ UNCHANGED <<to_keep, todo, passes>>
               ELSE /\ pc' = "pass" /\ passes' = passes + 1
                    /\ todo' = to_keep /\ UNCHANGED to_keep
    /\ UNCHANGED <<condVars, entry, oracle, start, filter_path, graph, stack, rejected, actions>>

(***************************************************************************)
(* The blocking oracle (BorrowsState), read-only during a build.           *)
(***************************************************************************)
edges_blocking(place) == {e \in oracle : blocks_place(e, place)}

(* The reborrows whose blocked place is a current place that is a strict  *)
(* prefix of `place`.                                                      *)
reborrows_blocking_prefix_of(place) ==
    {e \in oracle :
        /\ e.kind = "Reborrow"
        /\ e.blocked_place.kind = "Current"
        /\ IsStrictPrefix(e.blocked_place.place, place)}

(* The reborrows whose assigned place is `place`: those through which     *)
(* `place` blocks another place.                                           *)
reborrows_blocked_by(place) ==
    {e \in oracle : e.kind = "Reborrow" /\ e.assigned_place = place}

(* The reborrows reserved at the program point `location`. *)
reborrow_edges_reserved_at(location) ==
    {e \in oracle : e.kind = "Reborrow" /\ e.reserve_location = location}

(***************************************************************************)
(* The builder (unblock_graph.rs 191-321). The chain of nested calls of    *)
(* unblock_place_internal and kill_reborrow_internal is a stack of frames. *)
(***************************************************************************)
NoEdge == [kind |-> "None"]

UnblockPlace(place) == [tag |-> "UnblockPlace", place |-> place]
KillReborrow(r) == [tag |-> "KillReborrow", reborrow |-> ReborrowValue(r)]

(* The history action a call records on entry. *)
HistoryAction(fn, arg) ==
    IF fn = "unblock_place_internal" THEN UnblockPlace(arg) ELSE KillReborrow(arg)

(* self.0.contains(&action) *)
history_contains(h, action) == \E i \in 1 .. Len(h) : h[i] = action

(* The history a call made with history.clone() leaves with its caller,   *)
(* had the callee worked on the caller's history itself.                   *)
CallerHistoryShared(own, callee) == callee

(* The caller's history after a call made with history.clone(): the       *)
(* callee recorded into its own copy.                                      *)
CallerHistory(own, callee) == own

(* kill_reborrow: the history of the call is UnblockHistory::new(). *)
kill_reborrow_history(callerHistory) == <<>>

(* add_dependency that inserts nothing. *)
add_dependency_dropped(g, e) == g

(* self.edges.insert(unblock_edge) *)
add_dependency(g, e) == g \cup {e}

NewFrame(fn, arg, h) ==
    [fn |-> fn, arg |-> arg, history |-> h,
     edgesTodo |-> IF fn = "unblock_place_internal" THEN edges_blocking(arg) ELSE {},
     cur |-> NoEdge,
     placesTodo |-> {},
     prefTodo |-> IF fn = "unblock_place_internal" /\ arg.kind = "Current"
                  THEN reborrows_blocking_prefix_of(arg.place) ELSE {},
     stage |-> "entered"]

Top == stack[Len(stack)]

WithTop(f) == [stack EXCEPT ![Len(stack)] = f]

(* A call of fn(arg, h) from the chain `base`. record() fails when the    *)
(* action is in h: report_error panics. A call equal in function,         *)
(* argument and history to one still active repeats that call's steps and *)
(* so calls itself again without end: the recursion exhausts the stack.   *)
Call(base, fn, arg, h) ==
    LET action == HistoryAction(fn, arg)
        f == NewFrame(fn, arg, Append(h, action))
    IN  IF history_contains(h, action)
        THEN pc' = "error" /\ rejected' = action /\ stack' = base
        ELSE IF \E i \in 1 .. Len(base) :
                    /\ base[i].fn = fn /\ base[i].arg = arg
                    /\ base[i].history = f.history
             THEN pc' = "overflow" /\ stack' = base /\ UNCHANGED rejected
             ELSE pc' = "build" /\ stack' = Append(base, f) /\ UNCHANGED rejected

(* The chain after the innermost call returns to its caller. A caller in  *)
(* unblock_place_internal passed a clone; kill_reborrow_internal moved    *)
(* its history into the call; the entry points keep none.                  *)
Returned ==
    LET n == Len(stack)
        callee == stack[n]
        rest == SubSeq(stack, 1, n - 1)
    IN  IF n = 1 THEN <<>>
        ELSE [rest EXCEPT ![n - 1].history =
                 IF rest[n - 1].fn = "unblock_place_internal"
                 THEN CallerHistory(@, callee.history)
                 ELSE IF rest[n - 1].fn = "kill_reborrow_internal"
                      THEN callee.history
                      ELSE @]

resolverVars == <<edges, to_keep, todo, actions, passes>>

(* for_place: a new graph, then unblock_place with a new history. *)
ForPlace ==
    /\ pc = "start"
    /\ graph' = {}
    /\ Call(<<>>, "unblock_place_internal", start, <<>>)
    /\ UNCHANGED <<condVars, entry, oracle, start, filter_path, resolverVars>>

(* The loop over the blocking edges with the region projection member     *)
(* added to the graph like the other kinds.                                *)
VisitBlockingEdgeAddsMember ==
    /\ pc = "build"
    /\ Top.fn = "unblock_place_internal"
    /\ Top.cur = NoEdge
    /\ \E e \in Top.edgesTodo :
         LET f == [Top EXCEPT !.edgesTodo = @ \ {e}]
         IN  CASE e.kind = "Reborrow" ->
                    /\ Call(WithTop(f), "kill_reborrow_internal", e, Top.history)
                    /\ UNCHANGED graph
               [] e.kind = "DerefExpansion" ->
                    /\ graph' = add_dependency(graph, e)
                    /\ stack' = WithTop([f EXCEPT !.cur = e, !.placesTodo = e.expansion])
                    /\ UNCHANGED <<pc, rejected>>
               [] e.kind = "Abstraction" ->
                    /\ stack' = WithTop([f EXCEPT !.cur = e, !.placesTodo = e.blocker_places])
                    /\ UNCHANGED <<graph, pc, rejected>>
               [] OTHER ->
                    /\ graph' = add_dependency(graph, e)
                    /\ stack' = WithTop(f)
                    /\ UNCHANGED <<pc, rejected>>
    /\ UNCHANGED <<condVars, entry, oracle, start, filter_path, resolverVars>>

(* `for edge in borrows.edges_blocking(place)`: the next edge, in any     *)
(* order. A reborrow is killed with a clone of the history; an expansion  *)
(* is added and its places are unblocked next; an abstraction's blocker   *)
(* places are unblocked next; a region projection member is skipped.      *)
VisitBlockingEdge ==
    /\ pc = "build"
    /\ Top.fn = "unblock_place_internal"
    /\ Top.cur = NoEdge
    /\ \E e \in Top.edgesTodo :
         LET f == [Top EXCEPT !.edgesTodo = @ \ {e}]
         IN  CASE e.kind = "Reborrow" ->
                    /\ Call(WithTop(f), "kill_reborrow_internal", e, Top.history)
                    /\ UNCHANGED graph
               [] e.kind = "DerefExpansion" ->
                    /\ graph' = add_dependency(graph, e)
                    /\ stack' = WithTop([f EXCEPT !.cur = e, !.placesTodo = e.expansion])
                    /\ UNCHANGED <<pc, rejected>>
               [] e.kind = "Abstraction" ->
                    /\ stack' = WithTop([f EXCEPT !.cur = e, !.placesTodo = e.blocker_places])
                    /\ UNCHANGED <<graph, pc, rejected>>
               [] OTHER ->
                    /\ stack' = WithTop(f)
                    /\ UNCHANGED <<graph, pc, rejected>>
    /\ UNCHANGED <<condVars, entry, oracle, start, filter_path, resolverVars>>

(* The inner loops: unblock_place_internal on the next place of the       *)
(* expansion or of the abstraction's blockers, with a clone of the        *)
(* history.                                                                *)
UnblockNextPlace ==
    /\ pc = "build"
    /\ Top.fn = "unblock_place_internal"
    /\ Top.cur # NoEdge
    /\ \E p \in Top.placesTodo :
         Call(WithTop([Top EXCEPT !.placesTodo = @ \ {p}]),
              "unblock_place_internal", p, Top.history)
    /\ UNCHANGED <<condVars, entry, oracle, start, filter_path, graph, resolverVars>>

(* The end of a match arm: the abstraction edge is added after its places. *)
FinishEdge ==
    /\ pc = "build"
    /\ Top.fn = "unblock_place_internal"
    /\ Top.cur # NoEdge
    /\ Top.placesTodo = {}
    /\ graph' = IF Top.cur.kind = "Abstraction" THEN add_dependency(graph, Top.cur)
                ELSE graph
    /\ stack' = WithTop([Top EXCEPT !.cur = NoEdge])
    /\ UNCHANGED <<condVars, entry, oracle, start, filter_path, rejected, pc, resolverVars>>

(* The loop over the prefix reborrows with an empty body. *)
KillPrefixReborrowSkipped ==
    /\ pc = "build"
    /\ Top.fn = "unblock_place_internal"
    /\ Top.cur = NoEdge
    /\ Top.edgesTodo = {}
    /\ \E r \in Top.prefTodo : stack' = WithTop([Top EXCEPT !.prefTodo = @ \ {r}])
    /\ UNCHANGED <<condVars, entry, oracle, start, filter_path, graph, rejected, pc, resolverVars>>

(* `for reborrow in borrows.reborrows_blocking_prefix_of(place)`:         *)
(* kill_reborrow on the next one.                                          *)
KillPrefixReborrow ==
    /\ pc = "build"
    /\ Top.fn = "unblock_place_internal"
    /\ Top.cur = NoEdge
    /\ Top.edgesTodo = {}
    /\ \E r \in Top.prefTodo :
         Call(WithTop([Top EXCEPT !.prefTodo = @ \ {r}]),
              "kill_reborrow_internal", r, kill_reborrow_history(Top.history))
    /\ UNCHANGED <<condVars, entry, oracle, start, filter_path, graph, resolverVars>>

(* unblock_place_internal returns. *)
ReturnUnblock ==
    /\ pc = "build"
    /\ Top.fn = "unblock_place_internal"
    /\ Top.cur = NoEdge
    /\ Top.edgesTodo = {}
    /\ Top.prefTodo = {}
    /\ stack' = Returned
    /\ pc' = IF Len(stack) = 1 THEN "built" ELSE "build"
    /\ UNCHANGED <<condVars, entry, oracle, start, filter_path, graph, rejected, resolverVars>>

(* kill_reborrow_internal after record(): unblock the assigned place with *)
(* the history itself.                                                     *)
KillUnblocksAssigned ==
    /\ pc = "build"
    /\ Top.fn = "kill_reborrow_internal"
    /\ Top.stage = "entered"
    /\ Call(WithTop([Top EXCEPT !.stage = "unblocked"]),
            "unblock_place_internal", Top.arg.assigned_place, Top.history)
    /\ UNCHANGED <<condVars, entry, oracle, start, filter_path, graph, resolverVars>>

(* kill_reborrow_internal adds the reborrow and returns. *)
KillAddsDependency ==
    /\ pc = "build"
    /\ Top.fn = "kill_reborrow_internal"
    /\ Top.stage = "unblocked"
    /\ graph' = add_dependency(graph, Top.arg)
    /\ stack' = Returned
    /\ pc' = IF Len(stack) = 1 THEN "built" ELSE "build"
    /\ UNCHANGED <<condVars, entry, oracle, start, filter_path, rejected, resolverVars>>

(***************************************************************************)
(* The other entry points of the builder (unblock_graph.rs 195-210,        *)
(* 280-292, 323-338). Their calls are frames of the same chain, below the  *)
(* frames of the calls they make.                                          *)
(***************************************************************************)
EntryFrame(fn, arg, es, places) ==
    [fn |-> fn, arg |-> arg, history |-> <<>>, edgesTodo |-> es, cur |-> NoEdge,
     placesTodo |-> places, prefTodo |-> {}, stage |-> "entered"]

(* A call of trim_old_leaves_from(place) from the chain `base`. The call   *)
(* reads the oracle only, so one made while a call for the same place is   *)
(* active repeats it and calls itself again without end.                   *)
CallTrim(base, place) ==
    IF \E i \in 1 .. Len(base) :
           base[i].fn = "trim_old_leaves_from" /\ base[i].arg = place
    THEN pc' = "overflow" /\ stack' = base
    ELSE /\ pc' = "build"
         /\ stack' = Append(base, EntryFrame("trim_old_leaves_from", place,
                                             reborrows_blocked_by(place), {}))

(* unblock_place(place) is called on the graph as it is. *)
CallUnblockPlace ==
    /\ pc = "start"
    /\ entry = "unblock_place"
    /\ Call(<<>>, "unblock_place_internal", start, <<>>)
    /\ UNCHANGED <<condVars, entry, oracle, start, filter_path, graph, resolverVars>>

(* kill_reborrow(reborrow) is called on the graph as it is. *)
CallKillReborrow ==
    /\ pc = "start"
    /\ entry = "kill_reborrow"
    /\ Call(<<>>, "kill_reborrow_internal", start, kill_reborrow_history(<<>>))
    /\ UNCHANGED <<condVars, entry, oracle, start, filter_path, graph, resolverVars>>

(* kill_reborrows_reserved_at(location) is called. *)
KillReborrowsReservedAt ==
    /\ pc = "start"
    /\ entry = "kill_reborrows_reserved_at"
    /\ stack' = <<EntryFrame(entry, start, reborrow_edges_reserved_at(start), {})>>
    /\ pc' = "build"
    /\ UNCHANGED <<condVars, entry, oracle, start, filter_path, graph, rejected, resolverVars>>

(* `for edge in borrows.reborrow_edges_reserved_at(location)`: the next    *)
(* edge. One whose blocked place is old is passed over; for another,       *)
(* unblock_place on its assigned place, with a new history.                *)
ReservedNext ==
    /\ pc = "build"
    /\ Top.fn = "kill_reborrows_reserved_at"
    /\ Top.cur = NoEdge
    /\ \E e \in Top.edgesTodo :
         LET f == [Top EXCEPT !.edgesTodo = @ \ {e}]
         IN  IF e.blocked_place.kind = "Old"
             THEN stack' = WithTop(f) /\ UNCHANGED <<pc, rejected>>
             ELSE Call(WithTop([f EXCEPT !.cur = e]),
                       "unblock_place_internal", e.assigned_place, <<>>)
    /\ UNCHANGED <<condVars, entry, oracle, start, filter_path, graph, resolverVars>>

(* The loop body without its add_dependency. *)
ReservedAddNothing ==
    /\ pc = "build"
    /\ Top.fn = "kill_reborrows_reserved_at"
    /\ Top.cur # NoEdge
    /\ stack' = WithTop([Top EXCEPT !.cur = NoEdge])
    /\ UNCHANGED <<condVars, entry, oracle, start, filter_path, graph, rejected, pc, resolverVars>>

(* After unblock_place: the edge is added. *)
ReservedAdd ==
    /\ pc = "build"
    /\ Top.fn = "kill_reborrows_reserved_at"
    /\ Top.cur # NoEdge
    /\ graph' = add_dependency(graph, Top.cur)
    /\ stack' = WithTop([Top EXCEPT !.cur = NoEdge])
    /\ UNCHANGED <<condVars, entry, oracle, start, filter_path, rejected, pc, resolverVars>>

(* kill_reborrows_reserved_at returns. *)
ReservedReturn ==
    /\ pc = "build"
    /\ Top.fn = "kill_reborrows_reserved_at"
    /\ Top.cur = NoEdge
    /\ Top.edgesTodo = {}
    /\ stack' = Returned
    /\ pc' = "built"
    /\ UNCHANGED <<condVars, entry, oracle, start, filter_path, graph, rejected, resolverVars>>

(* kill_abstraction(abstraction) is called. *)
KillAbstraction ==
    /\ pc = "start"
    /\ entry = "kill_abstraction"
    /\ stack' = <<EntryFrame(entry, start, {}, start.blocks_places)>>
    /\ pc' = "build"
    /\ UNCHANGED <<condVars, entry, oracle, start, filter_path, graph, rejected, resolverVars>>

(* `for place in &abstraction.value.blocks_places()`: the next place. An   *)
(* old place is trimmed; any other is passed over.                         *)
AbstractionNextPlace ==
    /\ pc = "build"
    /\ Top.fn = "kill_abstraction"
    /\ \E place \in Top.placesTodo :
         LET f == [Top EXCEPT !.placesTodo = @ \ {place}]
         IN  IF place.kind = "Old"
             THEN CallTrim(WithTop(f), place)
             ELSE stack' = WithTop(f) /\ UNCHANGED pc
    /\ UNCHANGED <<condVars, entry, oracle, start, filter_path, graph, rejected, resolverVars>>

(* After the loop kill_abstraction adds the abstraction and returns. *)
AbstractionAdd ==
    /\ pc = "build"
    /\ Top.fn = "kill_abstraction"
    /\ Top.placesTodo = {}
    /\ graph' = add_dependency(graph, Top.arg)
    /\ stack' = Returned
    /\ pc' = "built"
    /\ UNCHANGED <<condVars, entry, oracle, start, filter_path, rejected, resolverVars>>

(* `for reborrow in borrows.reborrows_blocked_by(OldPlace(place))`: the    *)
(* next reborrow. An old blocked place is trimmed first.                   *)
TrimNext ==
    /\ pc = "build"
    /\ Top.fn = "trim_old_leaves_from"
    /\ Top.cur = NoEdge
    /\ \E r \in Top.edgesTodo :
         LET f == [Top EXCEPT !.edgesTodo = @ \ {r}, !.cur = r]
         IN  IF r.blocked_place.kind = "Old"
             THEN CallTrim(WithTop(f), r.blocked_place)
             ELSE stack' = WithTop(f) /\ UNCHANGED pc
    /\ UNCHANGED <<condVars, entry, oracle, start, filter_path, graph, rejected, resolverVars>>

(* A loop body that ends without kill_reborrow. *)
TrimSkipsKill ==
    /\ pc = "build"
    /\ Top.fn = "trim_old_leaves_from"
    /\ Top.cur # NoEdge
    /\ stack' = WithTop([Top EXCEPT !.cur = NoEdge])
    /\ UNCHANGED <<condVars, entry, oracle, start, filter_path, graph, rejected, pc, resolverVars>>

(* The end of the loop body: kill_reborrow, with a new history. *)
TrimKill ==
    /\ pc = "build"
    /\ Top.fn = "trim_old_leaves_from"
    /\ Top.cur # NoEdge
    /\ Call(WithTop([Top EXCEPT !.cur = NoEdge]),
            "kill_reborrow_internal", Top.cur, kill_reborrow_history(Top.history))
    /\ UNCHANGED <<condVars, entry, oracle, start, filter_path, graph, resolverVars>>

(* trim_old_leaves_from returns to kill_abstraction or to itself. *)
TrimReturn ==
    /\ pc = "build"
    /\ Top.fn = "trim_old_leaves_from"
    /\ Top.cur = NoEdge
    /\ Top.edgesTodo = {}
    /\ stack' = Returned
    /\ UNCHANGED <<condVars, entry, oracle, start, filter_path, graph, rejected, pc, resolverVars>>

(***************************************************************************)
(* filter_for_path (unblock_graph.rs 110-112).                             *)
(***************************************************************************)
(* The control-flow graph b0 -> b1 -> b2 with the branch b0 -> b3. *)
CFGEdges == {<<0, 1>>, <<1, 2>>, <<0, 3>>}

IsCFGWalk(p) == \A i \in 1 .. (Len(p) - 1) : <<p[i], p[i + 1]>> \in CFGEdges

(* The concrete paths: the empty path and every stretch of an execution *)
(* of the control-flow graph, of at most MaxPathLen blocks.             *)
PathInputs == {p \in SeqsUpTo(Blocks, MaxPathLen) : IsCFGWalk(p)}

(* retain that keeps the edges the predicate rejects. *)
retain_rejected(es, path) == {e \in es : ~edge_valid_for_path(e, path)}

(* self.edges.retain(|edge| edge.valid_for_path(path)) *)
retain(es, path) == {e \in es : edge_valid_for_path(e, path)}

(* A panic inside the predicate unwinds out of retain; what the set holds *)
(* then is not observed and is left as it was.                             *)
FilterForPath(inputs) ==
    /\ pc \in {"built", "filtered"}
    /\ \E path \in inputs :
         /\ filter_path' = path
         /\ IF \E e \in graph : valid_for_path_panics(e.conditions, path)
            THEN pc' = "panic" /\ UNCHANGED graph
            ELSE pc' = "filtered" /\ graph' = retain(graph, path)
    /\ UNCHANGED <<condVars, entry, oracle, start, stack, rejected, resolverVars>>

(***************************************************************************)
(* SpecResolve: actions() on every edge set of at most MaxGraphEdges       *)
(* edges over three locations. The builder's public entry points           *)
(* (kill_reborrow, kill_abstraction, unblock_place) can put any such set   *)
(* into a graph, cyclic ones included.                                     *)
(***************************************************************************)
CurX == Current(<<1>>)
CurXF == Current(<<1, 1>>)
OldY == OldPlace(<<2>>)
Locations == {CurX, CurXF, OldY}

NoItem == [tag |-> "None"]

(* No call has been made on cond. *)
Called(op, arg, before, ret) ==
    [method |-> op, argument |-> arg, receiver |-> before, result |-> ret]

NoCall == Called("none", NoItem, NoItem, NoItem)

(* The edges over Locations: every reborrow, self-blocking ones included;  *)
(* every expansion of a location into other locations; every abstraction  *)
(* blocking one location with any set of other locations as its blockers. *)
(* Each kind was recorded under its own path conditions.                  *)
EdgeUniverse ==
    {Reborrow(b, a, AtBlock(0)) : b \in Locations, a \in Locations}
    \cup UNION {{DerefExpansion(b, ex, Paths({<<0, 1>>})) :
                    ex \in (SUBSET (Locations \ {b})) \ {{}}} : b \in Locations}
    \cup UNION {{Abstraction({b}, bl, Paths({<<0, 1>>, <<1, 2>>})) :
                    bl \in (SUBSET (Locations \ {b})) \ {{}}} : b \in Locations}

(* With them, the reborrows of CurX recorded under a second path          *)
(* condition, distinct edges that ask for equal actions, and the           *)
(* abstractions that have no blocker place.                                *)
ResolveUniverse ==
    EdgeUniverse
    \cup {Reborrow(CurX, a, Paths({<<0, 1>>})) : a \in Locations}
    \cup {Abstraction({b}, {}, Paths({<<0, 1>>, <<1, 2>>})) : b \in Locations}

InitResolve ==
    /\ graph \in UpTo(ResolveUniverse, MaxGraphEdges)
    /\ oracle = graph
    /\ start = CurX
    /\ filter_path = <<>>
    /\ entry = "for_place"
    /\ cond = AtBlock(0)
    /\ call = NoCall
    /\ stack = <<>>
    /\ rejected = NoItem
    /\ pc = "built"
    /\ edges = {}
    /\ to_keep = {}
    /\ todo = {}
    /\ actions = <<>>
    /\ passes = 0

NextResolve == CallActions \/ VisitEdge \/ EndPass

SpecResolve == InitResolve /\ [][NextResolve]_vars

(***************************************************************************)
(* SpecBuild: for_place(start) over every oracle of at most                *)
(* MaxOracleEdges edges, cyclic ones included, then any number of          *)
(* filter_for_path calls, then actions().                                  *)
(***************************************************************************)
InitBuild ==
    /\ oracle \in UpTo(EdgeUniverse, MaxOracleEdges)
    /\ start \in Locations
    /\ graph = {}
    /\ filter_path = <<>>
    /\ entry = "for_place"
    /\ cond = AtBlock(0)
    /\ call = NoCall
    /\ stack = <<>>
    /\ rejected = NoItem
    /\ pc = "start"
    /\ edges = {}
    /\ to_keep = {}
    /\ todo = {}
    /\ actions = <<>>
    /\ passes = 0

NextBuild ==
    \/ ForPlace
    \/ VisitBlockingEdge
    \/ UnblockNextPlace
    \/ FinishEdge
    \/ KillPrefixReborrow
    \/ ReturnUnblock
    \/ KillUnblocksAssigned
    \/ KillAddsDependency
    \/ FilterForPath(PathInputs)
    \/ CallActions
    \/ VisitEdge
    \/ EndPass

SpecBuild == InitBuild /\ [][NextBuild]_vars

(***************************************************************************)
(* SpecFilter: filter_for_path, any number of times, on every graph of at  *)
(* most MaxFilterEdges reborrows that differ in their path conditions: a   *)
(* block, or a non-empty set of edges of the control-flow graph            *)
(* b0 -> b1, b1 -> b2, b0 -> b3.                                           *)
(***************************************************************************)
FilterConds ==
    {AtBlock(b) : b \in Blocks} \cup {Paths(g) : g \in (SUBSET CFGEdges) \ {{}}}

FilterUniverse == {Reborrow(CurX, CurXF, c) : c \in FilterConds}

InitFilter ==
    /\ graph \in UpTo(FilterUniverse, MaxFilterEdges)
    /\ oracle = graph
    /\ start = CurX
    /\ filter_path = <<>>
    /\ entry = "for_place"
    /\ cond = AtBlock(0)
    /\ call = NoCall
    /\ stack = <<>>
    /\ rejected = NoItem
    /\ pc = "built"
    /\ edges = {}
    /\ to_keep = {}
    /\ todo = {}
    /\ actions = <<>>
    /\ passes = 0

NextFilter == FilterForPath(PathInputs)

SpecFilter == InitFilter /\ [][NextFilter]_vars

(***************************************************************************)
(* Operations on path conditions (path_condition.rs 72-202).               *)
(* A mutating operation yields the receiver's new value and what the call  *)
(* returns; `panics` tells that an assertion of the operation fails.       *)
(***************************************************************************)
(* BTreeSet::insert: true iff the set did not hold the value. *)
PCGraph_insert(g, pc1) == [graph |-> g \cup {pc1}, ret |-> pc1 \notin g]

(* A loop that reports only whether the last edge visited was new. *)
RECURSIVE JoinFrom_last(_, _, _)
JoinFrom_last(g, rest, changed) ==
    IF rest = {} THEN [graph |-> g, ret |-> changed]
    ELSE LET pc1 == FirstOf(rest)[1]
         IN  JoinFrom_last(g \cup {pc1}, rest \ {pc1}, pc1 \notin g)

(* The loop of PCGraph::join over the edges of `rest`, in their order. *)
RECURSIVE JoinFrom(_, _, _)
JoinFrom(g, rest, changed) ==
    IF rest = {} THEN [graph |-> g, ret |-> changed]
    ELSE LET pc1 == FirstOf(rest)[1]
             ins == PCGraph_insert(g, pc1)
         IN  JoinFrom(ins.graph, rest \ {pc1}, changed \/ ins.ret)

(* A join that reports a change whenever the other graph has an edge. *)
PCGraph_join_any(g, other) == [graph |-> g \cup other, ret |-> other # {}]

PCGraph_join(g, other) == JoinFrom(g, other, FALSE)

PathConditions_root(c) ==
    IF c.tag = "AtBlock" THEN <<c.block>> ELSE PCGraph_root(c.graph)

PathConditions_end(c) ==
    IF c.tag = "AtBlock" THEN <<c.block>> ELSE PCGraph_end(c.graph)

(* blocks.predecessors()[b] *)
predecessors(cfg, b) == {e[1] : e \in {x \in cfg : x[2] = b}}

mutually_exclusive(c, other, cfg) ==
    IF c = other THEN FALSE
    ELSE LET r1 == PathConditions_root(c)
             r2 == PathConditions_root(other)
             e1 == PathConditions_end(c)
             e2 == PathConditions_end(other)
         IN  IF r1 # <<>> /\ r2 # <<>> /\ e1 # <<>> /\ e2 # <<>>
             THEN /\ e2[1] \notin predecessors(cfg, r1[1])
                  /\ e1[1] \notin predecessors(cfg, r2[1])
             ELSE FALSE

(* A join that adopts the other condition when the shapes differ. *)
PathConditions_join_adopts(c, other) ==
    CASE c.tag = "AtBlock" /\ other.tag = "AtBlock" ->
            [panics |-> c.block # other.block, value |-> c, ret |-> FALSE]
      [] c.tag = "Paths" /\ other.tag = "Paths" ->
            [panics |-> FALSE, value |-> Paths(c.graph \cup other.graph),
             ret |-> ~(other.graph \subseteq c.graph)]
      [] OTHER -> [panics |-> FALSE, value |-> other, ret |-> TRUE]

PathConditions_join(c, other) ==
    CASE c.tag = "AtBlock" /\ other.tag = "AtBlock" ->
            [panics |-> c.block # other.block, value |-> c, ret |-> FALSE]
      [] c.tag = "Paths" /\ other.tag = "Paths" ->
            LET j == PCGraph_join(c.graph, other.graph)
            IN  [panics |-> FALSE, value |-> Paths(j.graph), ret |-> j.ret]
      [] OTHER -> [panics |-> FALSE, value |-> c, ret |-> FALSE]

(* An insert that promotes a block to the edge whatever its source. *)
PathConditions_insert_unchecked(c, pc1) ==
    IF c.tag = "AtBlock"
    THEN [panics |-> FALSE, value |-> Paths({pc1}), ret |-> TRUE]
    ELSE [panics |-> FALSE, value |-> Paths(c.graph \cup {pc1}),
          ret |-> pc1 \notin c.graph]

PathConditions_insert(c, pc1) ==
    IF c.tag = "AtBlock"
    THEN LET ok == c.block = pc1[1]
         IN  [panics |-> ~ok, value |-> IF ok THEN Paths({pc1}) ELSE c, ret |-> TRUE]
    ELSE LET ins == PCGraph_insert(c.graph, pc1)
         IN  [panics |-> FALSE, value |-> Paths(ins.graph), ret |-> ins.ret]

(***************************************************************************)
(* SpecCond: the operations of PathConditions, in any order, on a value    *)
(* that starts as a block or as a non-empty set of edges of the            *)
(* control-flow graph CFGLoop: b0 -> b1 -> b2 with the branch b0 -> b3,    *)
(* the join b3 -> b2 and the back edge b2 -> b1. mutually_exclusive is     *)
(* asked in that graph and in the graph without the join and back edge.    *)
(***************************************************************************)
CFGLoop == CFGEdges \cup {<<3, 2>>, <<2, 1>>}

CFGs == {CFGEdges, CFGLoop}

CondValues ==
    {AtBlock(b) : b \in Blocks} \cup {Paths(g) : g \in (SUBSET CFGLoop) \ {{}}}

IsWalkOf(cfg, p) == \A i \in 1 .. (Len(p) - 1) : <<p[i], p[i + 1]>> \in cfg

(* The empty path and every stretch of an execution of cfg. *)
WalksOf(cfg) == {p \in SeqsUpTo(Blocks, MaxPathLen) : IsWalkOf(cfg, p)}

CondWithin(c, cfg) == IF c.tag = "AtBlock" THEN TRUE ELSE c.graph \subseteq cfg

progVars ==
    <<oracle, start, graph, filter_path, stack, rejected, resolverVars, entry>>

CondInsert ==
    /\ pc = "cond"
    /\ \E e \in CFGLoop :
         LET r == PathConditions_insert(cond, e)
         IN  /\ cond' = r.value
             /\ call' = Called("insert", e, cond, r.ret)
             /\ pc' = IF r.panics THEN "panic" ELSE "cond"
    /\ UNCHANGED progVars

CondJoin ==
    /\ pc = "cond"
    /\ \E other \in CondValues :
         LET r == PathConditions_join(cond, other)
         IN  /\ cond' = r.value
             /\ call' = Called("join", other, cond, r.ret)
             /\ pc' = IF r.panics THEN "panic" ELSE "cond"
    /\ UNCHANGED progVars

CondRoot ==
    /\ pc = "cond"
    /\ call' = Called("root", NoItem, cond, PathConditions_root(cond))
    /\ UNCHANGED <<cond, pc, progVars>>

CondEnd ==
    /\ pc = "cond"
    /\ call' = Called("end", NoItem, cond, PathConditions_end(cond))
    /\ UNCHANGED <<cond, pc, progVars>>

CondMutuallyExclusive ==
    /\ pc = "cond"
    /\ \E cfg \in CFGs :
         /\ CondWithin(cond, cfg)
         /\ \E other \in {o \in CondValues : CondWithin(o, cfg)} :
              call' = Called("mutually_exclusive", [other |-> other, cfg |-> cfg],
                             cond, mutually_exclusive(cond, other, cfg))
    /\ UNCHANGED <<cond, pc, progVars>>

CondValidForPath ==
    /\ pc = "cond"
    /\ \E path \in WalksOf(CFGLoop) :
         /\ call' = Called("valid_for_path", path, cond,
                            IF valid_for_path_panics(cond, path) THEN FALSE
                            ELSE valid_for_path(cond, path))
         /\ pc' = IF valid_for_path_panics(cond, path) THEN "panic" ELSE "cond"
    /\ UNCHANGED <<cond, progVars>>

InitCond ==
    /\ cond \in CondValues
    /\ call = NoCall
    /\ pc = "cond"
    /\ oracle = {}
    /\ start = CurX
    /\ graph = {}
    /\ filter_path = <<>>
    /\ entry = "for_place"
    /\ stack = <<>>
    /\ rejected = NoItem
    /\ edges = {}
    /\ to_keep = {}
    /\ todo = {}
    /\ actions = <<>>
    /\ passes = 0

NextCond ==
    \/ CondInsert
    \/ CondJoin
    \/ CondRoot
    \/ CondEnd
    \/ CondMutuallyExclusive
    \/ CondValidForPath

SpecCond == InitCond /\ [][NextCond]_vars

(***************************************************************************)
(* SpecKill: kill_reborrows_reserved_at or kill_abstraction, called once   *)
(* on a new graph. The oracle holds reborrows reserved at two program      *)
(* points, among them chains and cycles through the snapshots OldY and     *)
(* OldZ, and abstractions that block a snapshot.                           *)
(***************************************************************************)
OldZ == OldPlace(<<3>>)

ReservePoints == {[block |-> b, statement_index |-> 0] : b \in {0, 1}}

ReborrowAt(blocked, assigned, location) ==
    [Reborrow(blocked, assigned, AtBlock(0)) EXCEPT !.reserve_location = location]

KillReborrows ==
    {ReborrowAt(e[1], e[2], l) :
        e \in {<<CurX, OldY>>, <<CurX, OldZ>>, <<OldY, OldZ>>, <<OldZ, OldY>>},
        l \in ReservePoints}

KillAbstractions ==
    {Abstraction({OldY}, {CurXF}, AtBlock(0)),
     Abstraction({CurX, OldZ}, {CurXF}, AtBlock(0))}

KillUniverse == KillReborrows \cup KillAbstractions

InitKill ==
    /\ oracle \in UpTo(KillUniverse, MaxOracleEdges)
    /\ entry \in {"kill_reborrows_reserved_at", "kill_abstraction"}
    /\ start \in IF entry = "kill_abstraction" THEN KillAbstractions ELSE ReservePoints
    /\ graph = {}
    /\ filter_path = <<>>
    /\ cond = AtBlock(0)
    /\ call = NoCall
    /\ stack = <<>>
    /\ rejected = NoItem
    /\ pc = "start"
    /\ edges = {}
    /\ to_keep = {}
    /\ todo = {}
    /\ actions = <<>>
    /\ passes = 0

NextKill ==
    \/ KillReborrowsReservedAt
    \/ ReservedNext
    \/ ReservedAdd
    \/ ReservedReturn
    \/ KillAbstraction
    \/ AbstractionNextPlace
    \/ AbstractionAdd
    \/ TrimNext
    \/ TrimKill
    \/ TrimReturn
    \/ VisitBlockingEdge
    \/ UnblockNextPlace
    \/ FinishEdge
    \/ KillPrefixReborrow
    \/ ReturnUnblock
    \/ KillUnblocksAssigned
    \/ KillAddsDependency

SpecKill == InitKill /\ [][NextKill]_vars

(***************************************************************************)
(* SpecEntries: any sequence of calls of the builder's entry points        *)
(* unblock_place, kill_reborrow, kill_reborrows_reserved_at and            *)
(* kill_abstraction on one graph, new at first, then actions(). The        *)
(* oracle holds, besides the edges of SpecKill, memberships of places in   *)
(* region projections.                                                     *)
(***************************************************************************)
Members == {RegionProjectionMember(p, 0, AtBlock(0)) : p \in {OldY, CurXF}}

EntriesUniverse == KillUniverse \cup Members

EntryPlaces == {CurX, CurXF, OldY, OldZ}

EntryPoints ==
    {"unblock_place", "kill_reborrow", "kill_reborrows_reserved_at", "kill_abstraction"}

(* The arguments a call of the entry point fn can be given. *)
EntryArguments(fn) ==
    CASE fn = "unblock_place" -> EntryPlaces
      [] fn = "kill_reborrow" -> {e \in oracle : e.kind = "Reborrow"}
      [] fn = "kill_reborrows_reserved_at" -> ReservePoints
      [] fn = "kill_abstraction" -> KillAbstractions

(* After a call returned, the next call is chosen. *)
AnotherCall ==
    /\ pc = "built"
    /\ \E fn \in EntryPoints : \E arg \in EntryArguments(fn) :
          entry' = fn /\ start' = arg
    /\ pc' = "start"
    /\ UNCHANGED <<condVars, oracle, filter_path, graph, stack, rejected, resolverVars>>

InitEntries ==
    /\ oracle \in UpTo(EntriesUniverse, MaxOracleEdges)
    /\ entry \in EntryPoints
    /\ start \in EntryArguments(entry)
    /\ graph = {}
    /\ filter_path = <<>>
    /\ cond = AtBlock(0)
    /\ call = NoCall
    /\ stack = <<>>
    /\ rejected = NoItem
    /\ pc = "start"
    /\ edges = {}
    /\ to_keep = {}
    /\ todo = {}
    /\ actions = <<>>
    /\ passes = 0

NextEntries ==
    \/ CallUnblockPlace
    \/ CallKillReborrow
    \/ AnotherCall
    \/ NextKill
    \/ CallActions
    \/ VisitEdge
    \/ EndPass

SpecEntries == InitEntries /\ [][NextEntries]_vars

(***************************************************************************)
(* Properties of the resolver.                                             *)
(***************************************************************************)
(* The index of the first element of seq equal to x; 0 when there is none. *)
Pos(seq, x) ==
    LET hits == {i \in 1 .. Len(seq) : seq[i] = x}
    IN  IF hits = {} THEN 0 ELSE CHOOSE i \in hits : \A j \in hits : i <= j

IsReborrow(e) == e.kind = "Reborrow"

(* The places that must be leaves before an edge can be released. *)
Needs(e) ==
    CASE e.kind = "Reborrow" -> {e.assigned_place}
      [] e.kind = "DerefExpansion" -> e.expansion
      [] e.kind = "Abstraction" -> e.blocker_places
      [] OTHER -> {}

(* e waits for f: f blocks a place e needs. *)
WaitsFor(e, f) == \E p \in Needs(e) : blocks_place(f, p)

RECURSIVE WaitClosure(_, _)
WaitClosure(G, S) ==
    LET n == S \cup {f \in G : \E e \in S : WaitsFor(e, f)}
    IN  IF n = S THEN S ELSE WaitClosure(G, n)

(* No edge of G waits, directly or through other edges of G, for itself. *)
AcyclicEdges(G) ==
    \A e \in G : e \notin WaitClosure(G, {f \in G : WaitsFor(e, f)})

Range(seq) == {seq[i] : i \in 1 .. Len(seq)}

NoDuplicates(seq) == \A i, j \in 1 .. Len(seq) : seq[i] = seq[j] => i = j

(* C1: when actions() returns, for every two reborrow edges r1, r2 of the  *)
(* input such that r2 blocks r1's assigned place, the TerminateReborrow    *)
(* action of r2 is in the sequence at a strictly smaller index than the    *)
(* TerminateReborrow action of r1.                                         *)
C1_ResolutionOrdering ==
    pc = "returned" =>
        \A r1, r2 \in graph :
            (IsReborrow(r1) /\ IsReborrow(r2) /\ r2.blocked_place = r1.assigned_place)
            => /\ Pos(actions, TerminateReborrow(r2)) > 0
               /\ Pos(actions, TerminateReborrow(r2)) < Pos(actions, TerminateReborrow(r1))

C1_Witness ==
    /\ pc = "returned"
    /\ \E r1, r2 \in graph :
         /\ IsReborrow(r1) /\ IsReborrow(r2)
         /\ r2.blocked_place = r1.assigned_place
         /\ Pos(actions, TerminateReborrow(r2)) = 1
         /\ Pos(actions, TerminateReborrow(r1)) = 2

(* C2: on an acyclic edge set actions() never stops at the assertion, and  *)
(* when it returns the working set is empty and the sequence holds the     *)
(* action of every input edge, nothing else, and no element twice.         *)
C2_ResolutionCompleteness ==
    AcyclicEdges(graph) =>
        /\ pc # "stuck"
        /\ pc = "returned" =>
             /\ edges = {}
             /\ Range(actions) = {ActionOf(e) : e \in graph}
             /\ NoDuplicates(actions)

(* Three edges, two of them asking for the same action. *)
C2_Witness ==
    /\ pc = "returned"
    /\ AcyclicEdges(graph)
    /\ Cardinality(graph) = 3
    /\ Len(actions) = 2

(* No edge of the working set can be released. *)
NothingPeelable ==
    /\ edges # {}
    /\ \A e \in edges : \E f \in edges : WaitsFor(e, f)

(* C3: a pass over a non-empty working set none of whose edges can be     *)
(* released emits nothing, removes nothing and ends in the assertion       *)
(* failure; nothing follows the failure; a returned call has no edge left. *)
C3_StuckIsFatal ==
    /\ [][(pc = "pass" /\ NothingPeelable) =>
            IF todo = {} THEN pc' = "stuck"
            ELSE pc' = "pass" /\ to_keep' = to_keep /\ actions' = actions]_vars
    /\ [][pc # "stuck"]_vars
    /\ [](pc = "returned" => edges = {})

(* Two reborrows, each blocking the other's assigned place. *)
C3_Witness ==
    /\ pc = "stuck"
    /\ \E r1, r2 \in edges :
         /\ r1 # r2 /\ IsReborrow(r1) /\ IsReborrow(r2)
         /\ r2.blocked_place = r1.assigned_place
         /\ r1.blocked_place = r2.assigned_place
         /\ r1.blocked_place # r1.assigned_place

(***************************************************************************)
(* Properties of the builder.                                              *)
(***************************************************************************)
(* The locations unblock_place_internal(p) calls itself on, directly or   *)
(* through kill_reborrow_internal.                                         *)
Follows(p) ==
    {e.assigned_place : e \in {f \in edges_blocking(p) : f.kind = "Reborrow"}}
    \cup UNION {e.expansion : e \in {f \in edges_blocking(p) : f.kind = "DerefExpansion"}}
    \cup UNION {e.blocker_places : e \in {f \in edges_blocking(p) : f.kind = "Abstraction"}}
    \cup (IF p.kind = "Current"
          THEN {r.assigned_place : r \in reborrows_blocking_prefix_of(p.place)}
          ELSE {})

RECURSIVE PlaceClosure(_)
PlaceClosure(S) ==
    LET n == S \cup UNION {Follows(p) : p \in S}
    IN  IF n = S THEN S ELSE PlaceClosure(n)

ReachPlaces == PlaceClosure({start})

(* Some location reachable from start blocks itself, directly or          *)
(* transitively, through the relations the builder follows.               *)
CyclicFromStart == \E q \in ReachPlaces : q \in PlaceClosure(Follows(q))

(* The reborrow, expansion and abstraction edges the builder's rules reach. *)
ReachEdges ==
    {e \in oracle :
        /\ e.kind \in {"Reborrow", "DerefExpansion", "Abstraction"}
        /\ \E p \in ReachPlaces : blocks_place(e, p)}
    \cup UNION {reborrows_blocking_prefix_of(p.place) :
                  p \in {q \in ReachPlaces : q.kind = "Current"}}

ReachReborrows == {ReborrowValue(e) : e \in {f \in ReachEdges : f.kind = "Reborrow"}}

(* C4: on an oracle in which a location reachable from the starting place *)
(* blocks itself, directly or transitively, unblock_place ends in          *)
(* report_error: it neither returns nor recurses without end.              *)
C4_CycleIsReported == CyclicFromStart => pc \in {"start", "build", "error"}

(* C5: the chain of nested calls is never longer than the number of       *)
(* distinct locations plus distinct reborrows reachable from the starting  *)
(* place, and the recursion never runs away.                               *)
C5_DepthBounded ==
    /\ Len(stack) <= Cardinality(ReachPlaces) + Cardinality(ReachReborrows)
    /\ pc # "overflow"

(* C6: on an oracle with no cycle reachable from the starting place, the  *)
(* graph for_place builds, filtered for any paths or not, never brings     *)
(* actions() to its assertion failure.                                     *)
C6_BuiltGraphResolves == pc = "stuck" => CyclicFromStart

(* A built graph that lost an edge to filter_for_path and was resolved. *)
C6_Witness ==
    /\ pc = "returned"
    /\ ~CyclicFromStart
    /\ graph # ReachEdges
    /\ Len(actions) = 2

(* C7: when unblock_place returns on an oracle with no reachable cycle,   *)
(* the graph is the set of edges the builder's rules reach from the        *)
(* starting place: it holds every edge blocking the starting place, every  *)
(* edge blocking the assigned place of a reborrow in it, a sub-location of *)
(* an expansion in it or a blocker place of an abstraction in it, and      *)
(* nothing else.                                                           *)
C7_TransitiveClosure ==
    (pc = "built" /\ ~CyclicFromStart) =>
        /\ graph = ReachEdges
        /\ edges_blocking(start) \subseteq graph
        /\ \A e \in graph :
             /\ e.kind = "Reborrow" => edges_blocking(e.assigned_place) \subseteq graph
             /\ e.kind = "DerefExpansion" =>
                    \A p \in e.expansion : edges_blocking(p) \subseteq graph
             /\ e.kind = "Abstraction" =>
                    \A p \in e.blocker_places : edges_blocking(p) \subseteq graph

(* Two edges reached, one edge of the oracle out of reach. *)
C7_Witness ==
    /\ pc = "built"
    /\ ~CyclicFromStart
    /\ Cardinality(graph) = 2
    /\ Cardinality(oracle) = 3
    /\ \E e \in graph : ~blocks_place(e, start)

(* C8: on an oracle with no reachable cycle unblock_place never ends in   *)
(* report_error, however many sibling branches reach the same location or  *)
(* reborrow; and whenever it ends in report_error the rejected location or *)
(* reborrow is the one of a call still active in the chain.                *)
C8_NoFalseCycle ==
    pc = "error" =>
        /\ CyclicFromStart
        /\ \E i \in 1 .. Len(stack) :
              HistoryAction(stack[i].fn, stack[i].arg) = rejected

(* A diamond: two edges of the built graph lead to the same location. *)
C8_Witness ==
    /\ pc = "built"
    /\ ~CyclicFromStart
    /\ \E e1, e2 \in graph :
         /\ e1 # e2
         /\ blocks_place(e1, start) /\ blocks_place(e2, start)
         /\ Needs(e1) \cap Needs(e2) # {}

(***************************************************************************)
(* Properties of filter_for_path.                                          *)
(***************************************************************************)
EdgeOn(from, to) == Reborrow(CurX, CurXF, Paths({<<from, to>>}))

(* Three blocking edges conditioned on b0 -> b1, b1 -> b2 and b0 -> b3. *)
Graph9 == {EdgeOn(0, 1), EdgeOn(1, 2), EdgeOn(0, 3)}

FilterStep == pc \in {"built", "filtered"} /\ pc' = "filtered"

(* C9 as stated: on the three edges conditioned on b0 -> b1, b1 -> b2 and *)
(* b0 -> b3, filter_for_path([b0, b1, b2]) retains the edges conditioned   *)
(* on b0 -> b1 and on b1 -> b2 and drops the one conditioned on b0 -> b3.  *)
C9_Claimed ==
    [][(FilterStep /\ graph = Graph9 /\ filter_path' = <<0, 1, 2>>)
           => graph' = {EdgeOn(0, 1), EdgeOn(1, 2)}]_vars

(* C9: on the three edges conditioned on b0 -> b1, b1 -> b2 and b0 -> b3, *)
(* filter_for_path([b0, b1, b2]) retains only the edge conditioned on      *)
(* b1 -> b2; it drops the edge conditioned on b0 -> b1, whose graph lacks  *)
(* the step b1 -> b2 of the path from its root b0, and the edge            *)
(* conditioned on b0 -> b3.                                                *)
C9_FilterExample ==
    [][(FilterStep /\ graph = Graph9 /\ filter_path' = <<0, 1, 2>>)
           => graph' = {EdgeOn(1, 2)}]_vars

(* The three edges have been filtered for the path b0, b1, b2. *)
C9_Witness ==
    /\ pc = "filtered"
    /\ oracle = Graph9
    /\ filter_path = <<0, 1, 2>>
    /\ graph = {EdgeOn(1, 2)}

(* C10: a filter_for_path(path) that returns leaves exactly the edges of  *)
(* the previous set whose conditions are valid_for_path(path): nothing is  *)
(* added, a retained edge is the edge it was, and a second call with the   *)
(* same path changes nothing.                                              *)
C10_FilterExact ==
    [][FilterStep =>
          /\ graph' \subseteq graph
          /\ \A e \in graph :
                e \in graph' <=> valid_for_path(e.conditions, filter_path')
          /\ (pc = "filtered" /\ filter_path' = filter_path)
                => graph' = graph]_vars

(* A call that kept some of three edges and dropped the others. *)
C10_Witness ==
    /\ pc = "filtered"
    /\ Cardinality(oracle) = 3
    /\ graph # {}
    /\ graph # oracle
    /\ graph = {e \in oracle : valid_for_path(e.conditions, filter_path)}

(***************************************************************************)
(* Properties of path conditions.                                          *)
(***************************************************************************)
CalledOn(op, c) == pc = "cond" /\ call.method = op /\ call.receiver = c

(* C11: in the control-flow graph b0 -> b1, b1 -> b2, b0 -> b3,           *)
(* Paths({b0 -> b1}).mutually_exclusive(Paths({b0 -> b3})) is true and     *)
(* Paths({b0 -> b1}).mutually_exclusive(Paths({b1 -> b2})) is false.       *)
C11_ExampleExclusion ==
    (CalledOn("mutually_exclusive", Paths({<<0, 1>>})) /\ call.argument.cfg = CFGEdges) =>
        /\ call.argument.other = Paths({<<0, 3>>}) => call.result = TRUE
        /\ call.argument.other = Paths({<<1, 2>>}) => call.result = FALSE

(* The executions of cfg from its entry block b0, of at least one block. *)
EntryWalksOf(cfg) == {p \in WalksOf(cfg) : Len(p) > 0 /\ p[1] = 0}

(* C12: when A.mutually_exclusive(B) returns true for conditions whose    *)
(* root and end are defined, no execution of the control-flow graph from   *)
(* its entry is valid_for_path for both A and B.                           *)
C12_ExclusionSound ==
    (pc = "cond" /\ call.method = "mutually_exclusive" /\ call.result = TRUE) =>
        \A p \in EntryWalksOf(call.argument.cfg) :
            ~(valid_for_path(call.receiver, p) /\ valid_for_path(call.argument.other, p))

(* The nodes of g with no incoming edge, and those with no outgoing edge. *)
Sources(g) == {e[1] : e \in g} \ {e[2] : e \in g}
Sinks(g) == {e[2] : e \in g} \ {e[1] : e \in g}

UniqueOrAbsent(S) == IF Cardinality(S) = 1 THEN <<CHOOSE x \in S : TRUE>> ELSE <<>>

(* C13 as stated: root() is the node with no incoming edge when there is  *)
(* exactly one and absent otherwise; end() is the node with no outgoing    *)
(* edge when there is exactly one and absent otherwise.                    *)
C13_Claimed ==
    /\ (pc = "cond" /\ call.method = "root" /\ call.receiver.tag = "Paths") =>
           call.result = UniqueOrAbsent(Sources(call.receiver.graph))
    /\ (pc = "cond" /\ call.method = "end" /\ call.receiver.tag = "Paths") =>
           call.result = UniqueOrAbsent(Sinks(call.receiver.graph))

(* The step is a call of `op` that returned. *)
Returns(op) == pc' = "cond" /\ call'.method = op

(* The state follows a call of join on two sets of edges. *)
JoinedGraphs ==
    /\ pc = "cond" /\ call.method = "join"
    /\ call.receiver.tag = "Paths" /\ call.argument.tag = "Paths"

(* C14: PCGraph::join is a monotone, idempotent union. After A.join(B) the *)
(* edges of A are those of the old A and of B, so none is removed; the     *)
(* call returns true iff B held an edge the old A lacked; and the same     *)
(* join made again at once returns false and changes nothing.              *)
C14_JoinMonotone ==
    [][(Returns("join") /\ call'.receiver.tag = "Paths"
                        /\ call'.argument.tag = "Paths")
          => /\ cond' = Paths(call'.receiver.graph \cup call'.argument.graph)
             /\ call'.receiver.graph \subseteq cond'.graph
             /\ call'.result = ~(call'.argument.graph \subseteq call'.receiver.graph)
             /\ (JoinedGraphs /\ call.argument = call'.argument)
                   => (call'.result = FALSE /\ cond' = cond)]_vars

(* A join that added an edge to a graph holding edges the other lacks. *)
C14_Witness ==
    /\ JoinedGraphs
    /\ call.result = TRUE
    /\ ~(call.receiver.graph \subseteq call.argument.graph)
    /\ call.receiver.graph \cap call.argument.graph # {}

(* C15: insert on AtBlock(n) with an edge whose source is not n fails an   *)
(* assertion and promotes nothing; with an edge from n the value becomes   *)
(* Paths of that edge and true is returned; on Paths(g) the value becomes  *)
(* g with the edge and true is returned iff the edge is new, whatever its  *)
(* source.                                                                 *)
C15_InsertContract ==
    [][(call'.method = "insert" /\ pc = "cond")
          => LET edge == call'.argument
             IN  IF cond.tag = "AtBlock"
                 THEN IF edge[1] # cond.block
                      THEN pc' = "panic" /\ cond' = cond
                      ELSE /\ pc' = "cond"
                           /\ cond' = Paths({edge})
                           /\ call'.result = TRUE
                 ELSE /\ pc' = "cond"
                      /\ cond' = Paths(cond.graph \cup {edge})
                      /\ call'.result = (edge \notin cond.graph)]_vars

(* An insert whose assertion failed, leaving the block as it was. *)
C15_Witness ==
    /\ pc = "panic" /\ call.method = "insert"
    /\ cond.tag = "AtBlock" /\ call.argument[1] # cond.block

(* C16: promotion is one-way. Over every sequence of insert and join       *)
(* calls, a value in Paths form stays in Paths form in the next state and  *)
(* keeps every edge it has, hence in every later state.                    *)
C16_OneWayPromotion ==
    [][cond.tag = "Paths"
          => (cond'.tag = "Paths" /\ cond.graph \subseteq cond'.graph)]_vars

(* A value already in Paths form that an insert or a join made larger. *)
C16_Witness ==
    /\ pc = "cond" /\ call.method \in {"insert", "join"}
    /\ call.receiver.tag = "Paths" /\ cond.tag = "Paths"
    /\ call.receiver.graph \subseteq cond.graph
    /\ call.receiver.graph # cond.graph

(* C17: PathConditions::join returns true iff the receiver's value after   *)
(* the call differs from its value before it, for two equal blocks, two    *)
(* sets of edges, and a block with a set of edges either way round.        *)
C17_JoinReportsChange ==
    [][Returns("join") => (call'.result = (cond' # cond))]_vars

(* A join of a block with a set of edges that returned false and left the  *)
(* block as it was.                                                        *)
C17_Witness ==
    /\ pc = "cond" /\ call.method = "join"
    /\ call.receiver.tag = "AtBlock" /\ call.argument.tag = "Paths"
    /\ call.result = FALSE /\ cond = call.receiver

(* The blocks the edges of g mention. *)
NodesOf(g) == {e[1] : e \in g} \cup {e[2] : e \in g}

(* Every consecutive pair of path from position `from` on is an edge of g. *)
ChainFrom(g, path, from) ==
    \A i \in from .. (Len(path) - 1) : <<path[i], path[i + 1]>> \in g

(* The state follows valid_for_path on a non-empty path. *)
CheckedPath == pc = "cond" /\ call.method = "valid_for_path" /\ Len(call.argument) > 0

(* C18 as claimed: for a set of edges and a non-empty path the answer is   *)
(* whether the path is a chain of the graph from its first node that is a  *)
(* node of the graph; for a block, whether the path ends at it.            *)
C18_Claimed ==
    CheckedPath =>
        LET c == call.receiver
            path == call.argument
            overlap == {i \in 1 .. Len(path) : path[i] \in NodesOf(c.graph)}
        IN  IF c.tag = "AtBlock"
            THEN call.result = (path[Len(path)] = c.block)
            ELSE overlap # {} =>
                   call.result =
                     ChainFrom(c.graph, path,
                               CHOOSE i \in overlap : \A j \in overlap : i <= j)

(* The source of the least edge, in the order of the set, whose source no  *)
(* edge of g enters; the empty set when every source is entered.           *)
LeastSource(g) ==
    LET open == {e \in g : \A x \in g : x[2] # e[1]}
    IN  {e[1] : e \in {m \in open : \A o \in open : o = m \/ PCLess(m, o)}}

(* C18: for a set of edges and a non-empty path, valid_for_path is true    *)
(* iff the path is a chain of the graph from the first occurrence of the   *)
(* condition's root (the source of the least edge whose source has no      *)
(* incoming edge), or from its start when the condition has no root or     *)
(* the root is not on the path; for a block b, iff the path ends at b.     *)
C18_ValidForPath ==
    CheckedPath =>
        LET c == call.receiver
            path == call.argument
            at == IF c.tag = "AtBlock" THEN {}
                  ELSE {i \in 1 .. Len(path) : path[i] \in LeastSource(c.graph)}
        IN  IF c.tag = "AtBlock"
            THEN call.result = (path[Len(path)] = c.block)
            ELSE call.result =
                   \E from \in 1 .. Len(path) :
                       /\ ChainFrom(c.graph, path, from)
                       /\ IF at = {} THEN from = 1
                          ELSE from \in at /\ \A j \in at : from <= j

(* A path accepted from its second occurrence of a node of the graph: the  *)
(* root comes after another node of the graph and occurs once.             *)
C18_Witness ==
    /\ CheckedPath
    /\ call.receiver.tag = "Paths"
    /\ call.result = TRUE
    /\ call.argument[1] \in NodesOf(call.receiver.graph)
    /\ call.argument[1] \notin LeastSource(call.receiver.graph)
    /\ \E i \in 2 .. Len(call.argument) :
           call.argument[i] \in LeastSource(call.receiver.graph)
    /\ ~ChainFrom(call.receiver.graph, call.argument, 1)

(***************************************************************************)
(* Properties of the builder's other entry points.                         *)
(***************************************************************************)
(* The entry point `fn` has returned. *)
ReturnedFrom(fn) == pc = "built" /\ entry = fn

(* C19 as claimed: after kill_reborrows_reserved_at(location) returns,     *)
(* every reborrow the oracle reports as reserved at the location is in     *)
(* the graph.                                                              *)
C19_Claimed ==
    ReturnedFrom("kill_reborrows_reserved_at")
        => reborrow_edges_reserved_at(start) \subseteq graph

(* C19: after kill_reborrows_reserved_at(location) returns, every reborrow *)
(* the oracle reports as reserved at the location whose blocked place is   *)
(* not a snapshot is in the graph.                                         *)
C19_ReservedKilled ==
    ReturnedFrom("kill_reborrows_reserved_at")
        => \A e \in reborrow_edges_reserved_at(start) :
               e.blocked_place.kind # "Old" => e \in graph

(* A return with a reborrow reserved at the location in the graph and      *)
(* another, whose blocked place is a snapshot, left out.                   *)
C19_Witness ==
    /\ ReturnedFrom("kill_reborrows_reserved_at")
    /\ \E e \in reborrow_edges_reserved_at(start) :
           e.blocked_place.kind # "Old" /\ e \in graph
    /\ \E e \in reborrow_edges_reserved_at(start) :
           e.blocked_place.kind = "Old" /\ e \notin graph

(* The old places trimming reaches from the places of S: through each      *)
(* reborrow blocked by one of them to its blocked place, when old.         *)
RECURSIVE TrimPlaces(_)
TrimPlaces(S) ==
    LET next == S \cup {r.blocked_place :
                           r \in {x \in UNION {reborrows_blocked_by(q) : q \in S} :
                                      x.blocked_place.kind = "Old"}}
    IN  IF next = S THEN S ELSE TrimPlaces(next)

(* The reborrows that transitively block an old place the abstraction      *)
(* `a` blocks.                                                             *)
Trimmed(a) ==
    UNION {reborrows_blocked_by(q) :
              q \in TrimPlaces({p \in a.blocks_places : p.kind = "Old"})}

(* C20 as claimed: after kill_abstraction(a) returns the graph contains a  *)
(* and every reborrow that transitively blocks an old place a blocks, and  *)
(* these reborrows are added before a: when a enters the graph they are    *)
(* in it.                                                                  *)
C20_Claimed ==
    [][entry = "kill_abstraction"
          => /\ (start \notin graph /\ start \in graph')
                   => Trimmed(start) \subseteq graph
             /\ pc' = "built"
                   => (start \in graph' /\ Trimmed(start) \subseteq graph')]_vars

(* C20: when kill_abstraction(a) makes its own add_dependency(a), at its   *)
(* end, every reborrow that transitively blocks an old place a blocks is   *)
(* in the graph; and when it has returned the graph contains a and them.   *)
C20_TrimmedBeforeAdd ==
    [][(entry = "kill_abstraction" /\ pc = "build" /\ pc' = "built")
          => /\ Trimmed(start) \subseteq graph
             /\ start \in graph'
             /\ Trimmed(start) \subseteq graph']_vars

(* A return after trimming a reborrow reached through an old blocked       *)
(* place, the abstraction not being among the oracle's edges.              *)
C20_Witness ==
    /\ ReturnedFrom("kill_abstraction")
    /\ start \notin oracle
    /\ \E r \in Trimmed(start) : r.assigned_place \notin start.blocks_places
    /\ Trimmed(start) \subseteq graph

(***************************************************************************)
(* Totality and termination.                                               *)
(***************************************************************************)
(* C27: valid_for_path is total. For every condition and every path, the   *)
(* empty one included, it returns a boolean: no call of it fails.          *)
C27_ValidForPathTotal == ~(pc = "panic" /\ call.method = "valid_for_path")

(* C26: trimming runs to completion. kill_abstraction and the calls of     *)
(* trim_old_leaves_from it makes return or abort, on every oracle, one     *)
(* with a cycle of reborrows between snapshots included: the recursion     *)
(* never goes on without end.                                              *)
C26_TrimmingTerminates == ~(entry = "kill_abstraction" /\ pc = "overflow")

(* A is a subset of B and not B itself. *)
StrictSubset(A, B) == A \subseteq B /\ A # B

(* C24: the resolver terminates. Every step of a pass either visits one    *)
(* more edge of the pass, or ends the call (it returns or aborts), or      *)
(* begins the next pass on a strict subset of the working set of this      *)
(* one; a step is always possible until the call ends; and the passes      *)
(* begun never exceed the number of edges given.                           *)
C24_ResolverTerminates ==
    /\ [][pc = "pass"
            => \/ pc' \in {"returned", "stuck"} /\ passes' = passes
               \/ /\ pc' = "pass" /\ passes' = passes
                  /\ edges' = edges /\ StrictSubset(todo', todo)
               \/ /\ pc' = "pass" /\ passes' = passes + 1
                  /\ StrictSubset(edges', edges)]_vars
    /\ [](pc = "pass" => ENABLED NextResolve)
    /\ [](pc \in {"pass", "returned", "stuck"} => passes <= Cardinality(graph))

(* A call that returned after as many passes as it was given edges. *)
C24_Witness ==
    /\ pc = "returned"
    /\ passes = Cardinality(graph)
    /\ passes >= 3

(* An edge of es is resolvable with respect to es: it is a reborrow, an    *)
(* expansion or an abstraction, and no edge of es blocks its assigned      *)
(* place, any of its sub-locations, any of its blocker places.             *)
Resolvable(es, e) ==
    /\ e.kind \in {"Reborrow", "DerefExpansion", "Abstraction"}
    /\ \A f \in es : ~WaitsFor(e, f)

(* The edges the current pass has removed. *)
RemovedInPass == edges \ to_keep

(* C23: a pass removes exactly the edges resolvable with respect to the    *)
(* working set at its start: of the edges visited so far, those and no     *)
(* others, and at its end all of them. So an edge and an edge blocking a   *)
(* place it depends on are never removed in one pass, and the Collapse or  *)
(* TerminateAbstraction of a removed edge stands in the sequence after     *)
(* the actions of all edges of the graph blocking its sub-locations or     *)
(* blocker places.                                                         *)
C23_PassRemovesResolvable ==
    pc = "pass" =>
        /\ RemovedInPass = {e \in edges \ todo : Resolvable(edges, e)}
        /\ \A e, f \in RemovedInPass : ~WaitsFor(e, f)
        /\ \A e \in graph \ to_keep :
               e.kind \in {"DerefExpansion", "Abstraction"}
               => \A f \in graph :
                      WaitsFor(e, f)
                      => /\ Pos(actions, ActionOf(f)) > 0
                         /\ Pos(actions, ActionOf(f)) < Pos(actions, ActionOf(e))

(* The end of a second pass that removed an abstraction with two blocker   *)
(* places, one of them blocked before, and kept another edge.              *)
C23_Witness ==
    /\ pc = "pass" /\ todo = {} /\ passes = 2
    /\ to_keep # {}
    /\ \E e \in RemovedInPass :
           /\ e.kind = "Abstraction"
           /\ Cardinality(e.blocker_places) = 2
           /\ \E f \in graph : WaitsFor(e, f)

(***************************************************************************)
(* Prefix reborrows and region-projection members.                         *)
(***************************************************************************)
(* The edges that block `place` or, transitively, a place that an edge     *)
(* among them needs to be unblocked.                                       *)
TransitivelyBlocking(place) ==
    LET reached == PlaceClosure({place})
    IN  {e \in oracle :
            /\ e.kind \in {"Reborrow", "DerefExpansion", "Abstraction"}
            /\ \E p \in reached : blocks_place(e, p)}

(* The innermost call is unblock_place_internal, past its loop over the    *)
(* blocking edges.                                                         *)
PastBlockingEdges ==
    /\ pc = "build"
    /\ Top.fn = "unblock_place_internal"
    /\ Top.edgesTodo = {} /\ Top.cur = NoEdge

(* C21: when unblock_place_internal returns from a current place, at the   *)
(* top level or at any depth, every reborrow the oracle reports as         *)
(* blocking a prefix of the place is in the graph with every reborrow,     *)
(* expansion and abstraction transitively blocking its assigned place;     *)
(* and on an old place the call returns after its loop over the blocking   *)
(* edges, killing no prefix reborrow.                                      *)
C21_PrefixReborrows ==
    [][PastBlockingEdges
          => IF Top.arg.kind = "Current"
             THEN Len(stack') = Len(stack) - 1
                    => \A r \in reborrows_blocking_prefix_of(Top.arg.place) :
                           /\ r \in graph'
                           /\ TransitivelyBlocking(r.assigned_place) \subseteq graph'
             ELSE /\ Len(stack') = Len(stack) - 1
                  /\ graph' = graph
                  /\ pc' \in {"build", "built"}]_vars

(* After unblock_place on a current place whose prefix is blocked by a     *)
(* reborrow that blocks nothing else reached, with an edge blocking the    *)
(* reborrow's assigned place.                                              *)
C21_Witness ==
    /\ pc = "built"
    /\ entry = "unblock_place"
    /\ start.kind = "Current"
    /\ \E r \in reborrows_blocking_prefix_of(start.place) :
           /\ r \in graph
           /\ \E e \in graph : blocks_place(e, r.assigned_place)
           /\ \A f \in graph \ {r} : r.blocked_place \notin Needs(f)

IsMember(e) == e.kind = "RegionProjectionMember"

(* The oracle without its region projection members. *)
WithoutMembers == {e \in oracle : ~IsMember(e)}

(* The places the builder goes on to from p when the oracle holds O. *)
FollowsIn(O, p) ==
    UNION {Needs(e) : e \in {f \in O : blocks_place(f, p)}}
    \cup (IF p.kind = "Current"
          THEN {r.assigned_place :
                   r \in {f \in O : /\ f.kind = "Reborrow"
                                     /\ f.blocked_place.kind = "Current"
                                     /\ IsStrictPrefix(f.blocked_place.place, p.place)}}
          ELSE {})

RECURSIVE ClosureIn(_, _)
ClosureIn(O, S) ==
    LET n == S \cup UNION {FollowsIn(O, p) : p \in S}
    IN  IF n = S THEN S ELSE ClosureIn(O, n)

(* The graph unblock_place(p) builds when the oracle holds O. *)
BuiltFrom(O, p) ==
    LET reached == ClosureIn(O, {p})
    IN  {e \in O : \E q \in reached : blocks_place(e, q)}
        \cup {f \in O : /\ f.kind = "Reborrow"
                        /\ f.blocked_place.kind = "Current"
                        /\ \E q \in reached :
                              /\ q.kind = "Current"
                              /\ IsStrictPrefix(f.blocked_place.place, q.place)}

(* The graph kill_reborrow(r) builds when the oracle holds O. *)
KilledFrom(O, r) == BuiltFrom(O, r.assigned_place) \cup {r}

(* What the call entry(start) adds to an empty graph when the oracle       *)
(* holds O.                                                                *)
BuiltBy(O) ==
    CASE entry = "unblock_place" -> BuiltFrom(O, start)
      [] entry = "kill_reborrow" -> KilledFrom(O, start)
      [] entry = "kill_reborrows_reserved_at" ->
            UNION {KilledFrom(O, e) :
                      e \in {f \in O : /\ f.kind = "Reborrow"
                                        /\ f.reserve_location = start
                                        /\ f.blocked_place.kind # "Old"}}
      [] entry = "kill_abstraction" ->
            {start} \cup UNION {KilledFrom(O, r) : r \in Trimmed(start)}

(* The step takes a region projection member off the edges the innermost   *)
(* call has to visit.                                                      *)
VisitsMember ==
    /\ pc = "build"
    /\ Top.fn = "unblock_place_internal"
    /\ Len(stack') = Len(stack)
    /\ \E m \in Top.edgesTodo : IsMember(m) /\ m \notin stack'[Len(stack)].edgesTodo

(* C22: region projection members are inert. Over any sequence of calls    *)
(* of the entry points the graph never holds one; visiting one adds        *)
(* nothing and calls nothing; each call adds only edges it would add, and  *)
(* on return has added all the edges it would add, were the oracle         *)
(* without its members; and every action the resolver emits is the action  *)
(* of an edge of another kind.                                             *)
C22_MembersInert ==
    /\ [](\A e \in graph : ~IsMember(e))
    /\ [](Range(actions) \subseteq {ActionOf(e) : e \in graph})
    /\ [][/\ VisitsMember => (graph' = graph /\ pc' = "build")
          /\ graph' # graph => (graph' \ graph) \subseteq BuiltBy(WithoutMembers)
          /\ (pc = "build" /\ pc' = "built")
                => BuiltBy(WithoutMembers) \subseteq graph']_vars

(* After unblock_place on a place that a region projection member and an   *)
(* edge of another kind block.                                             *)
C22_Witness ==
    /\ pc = "built"
    /\ entry = "unblock_place"
    /\ \E m \in oracle : IsMember(m) /\ m.place = start
    /\ graph # {}

(* The edges a pass that starts with the set es removes, whatever the      *)
(* order of iteration.                                                     *)
Peel(es) == {e \in es : Peelable(es, e)}

(* The pass that removes e when actions() starts with es and the first     *)
(* pass is numbered n; 0 when no pass does.                                *)
RECURSIVE PassOf(_, _, _)
PassOf(es, e, n) ==
    IF Peel(es) = {} THEN 0
    ELSE IF e \in Peel(es) THEN n
    ELSE PassOf(es \ Peel(es), e, n + 1)

(* actions() on es ends in the failed assertion. *)
RECURSIVE Aborts(_)
Aborts(es) ==
    IF es = {} THEN FALSE
    ELSE IF Peel(es) = {} THEN TRUE
    ELSE Aborts(es \ Peel(es))

(* C25: the result of actions() is a function of the edge set but for the  *)
(* order within a pass. In every order of iteration: the run aborts iff    *)
(* peeling the set gets stuck; an edge is removed in the pass the set      *)
(* assigns to it; the returned actions are the actions of the edges of     *)
(* the set, each once; and of two actions of edges removed in different    *)
(* passes the one of the earlier pass comes first.                         *)
C25_OrderIndependent ==
    /\ [][pc = "pass" =>
             \A e \in to_keep \ to_keep' : PassOf(graph, e, 1) = passes]_vars
    /\ [](pc = "stuck" => Aborts(graph))
    /\ [](pc = "returned" =>
             /\ ~Aborts(graph)
             /\ Range(actions) = {ActionOf(e) : e \in graph}
             /\ NoDuplicates(actions))
    /\ [](pc \in {"pass", "returned", "stuck"} =>
             \A e, f \in graph \ to_keep :
                 PassOf(graph, e, 1) < PassOf(graph, f, 1)
                    => Pos(actions, ActionOf(e)) < Pos(actions, ActionOf(f)))

(* A returned run of two passes or more whose first pass removed two       *)
(* edges with different actions, emitted against the order in which the    *)
(* other run emits them.                                                   *)
C25_Witness ==
    /\ pc = "returned"
    /\ passes >= 2
    /\ \E e, f \in graph :
          /\ PassOf(graph, e, 1) = 1
          /\ PassOf(graph, f, 1) = 1
          /\ e.kind = "Reborrow"
          /\ f.kind = "DerefExpansion"
          /\ Pos(actions, ActionOf(f)) < Pos(actions, ActionOf(e))

====
